---- MODULE Spec2Model ----
(***************************************************************************)
(* Model of the registry status pagelet client: the Charts collection, the *)
(* Chart rolling window, its scales and readout, and the feed dispatch.    *)
(* The feature-complete client is src/unnamed/part_000; src/client.js is   *)
(* the earlier variant.                                                    *)
(***************************************************************************)
EXTENDS Integers, Sequences, FiniteSets, TLC

\* ------------------------------------------------------------------ bounds
MaxHist == 4    \* length of the longest history array in pagelet.data.status
MaxN    == 3    \* options.n is drawn from 0..MaxN (0 stands for "not set")
MaxFeed == 2    \* number of feed events delivered on pagelet.pipe.stream
MaxClicks == 2  \* number of clicks on the registry list
MaxModules == 11  \* length of the longest module list of a heatmap cell
MaxCount == 105   \* values.n of a heatmap cell lies in -MaxCount .. MaxCount
MaxIdle == 2      \* number of step intervals that pass without a feed event
MaxKeys == 3      \* length of the longest configured ordinal domain

\* ------------------------------------------------------- program constants
DefaultN    == 120      \* this.n = options.n || 120
DefaultStep == 60000    \* this.step = options.step || 6E4

\* A value that is not a number (a string such as 'n/a'), and the NaN that
\* d3 stores as a domain bound when d3.max finds no number.
NotANumber == 0 - 1
NaN        == 0 - 2

\* The numbers a sample carries under values[key].
Values == {0, 1}

\* ------------------------------------------------------------- the pagelet
Types      == {"ping", "delta"}
Registries == {"npmjs", "nodejitsu"}

\* pagelet.data.status holds histories for type ping only; the feed may also
\* carry events of type delta, for which no chart is configured.
StatusTypes == {"ping"}

VARIABLES
  phase,     \* "boot" before the status::initialise handler ran, then "ready" or "failed"
  options,   \* pagelet.data.options[type]: n, visual, x.type, y.type
  status,    \* pagelet.data.status[type][registry]: the history arrays
  latest,    \* pagelet.data.latest[type][registry]
  stack,     \* Charts.stack: chart name -> Chart
  now,       \* Date.now()
  log,       \* per chart: the initial window followed by every sample pushed, in arrival order
  feed,      \* number of feed events delivered so far
  event,     \* the event handled last
  error,     \* what the handler of the last event threw ("none" when it returned)
  hash,      \* window.location.hash at page load ("" when the URL has no fragment)
  groups,    \* the g.registry elements: show class, transform, transition in flight
  marked,    \* the map markers that carry the highlight class
  calls,     \* the calls change() made when it ran last
  clicks,    \* number of clicks on the registry list handled so far
  cell,      \* a datum of the chart: values.n, values.modules, values[key], values.lower
  unit,      \* the rect rendered for it: the class level of heatmap(), y and height of bar()
  tip,       \* the .tooltip element: visibility, content, transition in flight
  torn       \* whether the host page has discarded the pagelet's elements

chartVars == <<phase, options, status, latest, stack, now, log, feed, event, error>>
selVars   == <<hash, groups, marked, calls, clicks>>
heatVars  == <<cell, unit, tip>>
vars      == <<chartVars, selVars, heatVars, torn>>

\* Charts.prototype.name
name(type, registry) == <<type, registry>>

\* Charts.initialize: one chart per status[type][registry] entry.
ChartNames == DOMAIN status

\* A sample {t, values: {<key>: v}}.
Sample(t, v) == [t |-> t, v |-> v]

\* ------------------------------------------------------------ d3 helpers
RECURSIVE SeqMax(_)
SeqMax(s) ==
  IF Len(s) = 1 THEN s[1].v
  ELSE LET m == SeqMax(Tail(s)) IN IF s[1].v > m THEN s[1].v ELSE m

\* The value of the oldest element instead of the greatest.
d3first(data) == IF data = << >> THEN NaN ELSE data[1].v

\* d3.max(array, accessor): undefined for an empty array, which a d3 scale
\* coerces to NaN when it is stored as a domain bound.
d3max(data) == IF data = << >> THEN NaN ELSE SeqMax(data)

\* Chart.prototype.range with boundary = true
range(end, n, interval) == <<end - n * interval, end>>

\* ------------------------------------------------------------ Chart parts
\* The backfill loop of the Chart constructor:
\*   while (--i) { this.data.push(data[data.length - i]); }
\* The loop ends when --i yields 0; started at i <= 0 it never does.
\* The loop reads the caller's array and leaves it as it is (from).
RECURSIVE BackfillLoop(_, _, _)
BackfillLoop(data, i, acc) ==
  LET j == i - 1 IN
  IF j = 0 THEN [ends |-> TRUE, data |-> acc, from |-> data]
  ELSE IF j < 0 THEN [ends |-> FALSE, data |-> acc, from |-> data]
  ELSE BackfillLoop(data, j, Append(acc, data[Len(data) - j + 1]))

\* A start that takes the whole history whatever the capacity.
BackfillStartWhole(n, data) == Len(data) + 1

\* The start of the earlier variant (src/client.js): data.length, not data.length + 1.
BackfillStartShort(n, data) == IF n < Len(data) THEN n ELSE Len(data)

\*   i = this.n < data.length ? this.n : data.length + 1;
BackfillStart(n, data) == IF n < Len(data) THEN n ELSE Len(data) + 1

\* A backfill that moves the entries out of the caller's array (splice).
BackfillSplicing(n, data) ==
  LET loop == BackfillLoop(data, BackfillStart(n, data), << >>)
  IN [loop EXCEPT !.from = SubSeq(data, 1, Len(data) - Len(loop.data))]

Backfill(n, data) == BackfillLoop(data, BackfillStart(n, data), << >>)

\* this.n = options.n || 120
Capacity(opts) == IF opts.n # 0 THEN opts.n ELSE DefaultN

\* Math.round of a number given in halves: JavaScript rounds .5 upwards.
MathRound(h) == (h + 1) \div 2

\* The latest values of the feed, numbers in halves (0.5, 1.5) or a text.
LatestInputs == {NotANumber, 1, 3}

\* The property names that `this.options.visual in this` finds on a Chart
\* when visuals() runs: the prototype's methods and the constructor's fields.
Renderers    == {"line", "bar", "heatmap"}
ChartMethods == Renderers \cup {"statistics", "visuals", "text", "current", "time",
                  "grid", "units", "scale", "range", "update", "animate", "tooltip", "max"}
ChartFields  == {"container", "options", "latest", "data", "name", "step", "n",
                  "key", "tip", "stats", "last"}
ChartMembers == ChartMethods \cup ChartFields

\* visuals(): var visual = this.options.visual in this ? this.options.visual : 'line'
VisualOf(visual) == IF visual \in ChartMembers THEN visual ELSE "line"

\* this[visual](this.chart, options) throws a TypeError when the member is
\* not callable.
VisualThrows(visual) == VisualOf(visual) \in ChartFields

\* Only the object that line() returns has an animate member.
HasAnimate(renderer) == renderer = "line"

\* A switch whose default branch builds a time scale.
ScaleKindTimeDefault(type) ==
  CASE type = "ordinal" -> "ordinal"
    [] type = "linear"  -> "linear"
    [] OTHER            -> "time"

\* Chart.prototype.scale: the switch on type; every type that is neither
\* 'ordinal' nor 'time' takes the default branch.
ScaleKind(type) ==
  CASE type = "ordinal" -> "ordinal"
    [] type = "time"    -> "time"
    [] OTHER            -> "linear"

\* The keys of an ordinal domain: d3 keeps the first occurrence of each.
RECURSIVE Unique(_, _)
Unique(keys, seen) ==
  IF keys = << >> THEN << >>
  ELSE IF Head(keys) \in seen THEN Unique(Tail(keys), seen)
  ELSE <<Head(keys)>> \o Unique(Tail(keys), seen \cup {Head(keys)})

Reverse(seq) == [ i \in 1 .. Len(seq) |-> seq[Len(seq) + 1 - i] ]

\* Bands laid out from the lower end of the range, whatever its direction.
rangeRoundBandsAscending(rng, m) ==
  LET start  == IF rng[2] < rng[1] THEN rng[2] ELSE rng[1]
      stop   == IF rng[2] < rng[1] THEN rng[1] ELSE rng[2]
      step   == (stop - start) \div m
      spare  == stop - start - m * step
  IN [ i \in 1 .. m |-> start + MathRound(spare) + step * (i - 1) ]

\* d3.scale.ordinal().rangeRoundBands(range) over m keys, no padding: the
\* start of each band, in key order from range[0] towards range[1].
rangeRoundBands(rng, m) ==
  LET reverse == rng[2] < rng[1]
      start   == IF reverse THEN rng[2] ELSE rng[1]
      stop    == IF reverse THEN rng[1] ELSE rng[2]
      step    == (stop - start) \div m
      spare   == stop - start - m * step
      steps   == [ i \in 1 .. m |-> start + MathRound(spare) + step * (i - 1) ]
  IN IF reverse THEN Reverse(steps) ELSE steps

\* construct.domain(domain) on the scale of the given kind: an ordinal
\* scale lays its bands out again for the new keys.
construct(kind, rng, domain) ==
  IF kind = "ordinal"
  THEN LET keys == Unique(domain, {}) IN
       [ kind |-> kind, domain |-> keys, range |-> rng,
         points |-> IF keys = << >> THEN << >> ELSE rangeRoundBands(rng, Len(keys)) ]
  ELSE [ kind |-> kind, domain |-> domain, range |-> rng, points |-> << >> ]

\* scale(key) of an ordinal scale: a key outside the domain is appended to
\* it and takes a band modulo the number of bands.
OrdinalMap(sc, key) ==
  LET at == { i \in 1 .. Len(sc.domain) : sc.domain[i] = key } IN
  IF at # {} THEN sc.points[CHOOSE i \in at : TRUE]
  ELSE IF sc.points = << >> THEN NaN
  ELSE sc.points[(Len(sc.domain) % Len(sc.points)) + 1]

\* Chart.prototype.scale: configured is options[dimension].domain, << >>
\* when it is not set and <<list>> when it is.
scale(type, dimension, rng, configured, n, step, data, clock) ==
  LET domain == IF configured # << >> THEN configured[1]
                ELSE IF dimension = "x" THEN range(clock, n, step)
                ELSE <<0, d3max(data)>>
  IN construct(ScaleKind(type), rng, domain)

\* isNaN(+base.text()): the text shown is no number.
TextIsNaN(text) == text \in {NotANumber, NaN}

\* A transition scheduled by base.transition().tween('text', ...): its tween
\* factory has not run yet, so the start value is not read yet.
Scheduled(target) == [to |-> target, running |-> FALSE, from |-> 0]

\* Chart.prototype.current on the readout [last, tween]: last is the text
\* shown, tween holds the transition in flight (none: << >>). A transition
\* created on the element replaces the one before it.
current(readout, value) ==
  IF value = NotANumber \/ TextIsNaN(readout.last)
  THEN [readout EXCEPT !.last = IF value # NotANumber THEN MathRound(value) ELSE value]
  ELSE [readout EXCEPT !.tween = <<Scheduled(MathRound(value))>>]

\* Chart.prototype.animate -> serie.animate of line(): both domains are
\* recomputed from the clock and from the window as it is at the call, and
\* the path is drawn again from the array bound to it, this.data.
animate(chart, clock) ==
  IF HasAnimate(chart.renderer)
  THEN [chart EXCEPT !.x = construct(@.kind, @.range, range(clock, chart.n, chart.step)),
                     !.y = construct(@.kind, @.range, <<0, d3max(chart.data)>>),
                     !.drawn = chart.data]
  ELSE chart

\* The Chart of the earlier variant (src/client.js), as far as its window goes:
\*   this.n = options.n || 40
\*   i = this.n < data.length ? this.n : data.length;
\*   while (--i) { this.data.push(data[data.length - i]); }
\*   this.statistics();   reads this.data[this.data.length - 1].values
\* The constructor does not return when the loop does not end, and throws
\* in statistics() when the window is empty.
EarlyN == 40

ChartEarly(data, opts) ==
  LET n    == IF opts.n # 0 THEN opts.n ELSE EarlyN
      loop == BackfillLoop(data, IF n < Len(data) THEN n ELSE Len(data), << >>)
  IN [ n     |-> n,
       state |-> IF ~loop.ends THEN "hung"
                 ELSE IF loop.data = << >> THEN "failed" ELSE "ok",
       data  |-> IF loop.ends THEN loop.data ELSE << >> ]

\* Chart.prototype.update of the earlier variant: push(data), ..., shift().
updateEarly(early, sample) ==
  IF early.state = "ok"
  THEN [early EXCEPT !.data = Tail(Append(early.data, sample))]
  ELSE early

\* function Chart(name, container, data, latest, options)
Chart(data, latestValue, opts, clock) ==
  LET n      == Capacity(opts)
      step   == DefaultStep
      window == Backfill(n, data).data
      shown  == current([last |-> 0, tween |-> << >>], latestValue)
      built  == [ n        |-> n,
                  step     |-> step,
                  data     |-> window,
                  last     |-> shown.last,
                  tween    |-> shown.tween,
                  x        |-> scale(opts.xtype, "x", <<0, opts.width>>, opts.xdomain,
                                     n, step, window, clock),
                  y        |-> scale(opts.ytype, "y", <<opts.height, 0>>, opts.ydomain,
                                     n, step, window, clock),
                  renderer |-> VisualOf(opts.visual),
                  \* the samples the rendered elements stand for: the points
                  \* of the path, or the rects that enter() appended
                  drawn    |-> window,
                  \* the value handed to current() last
                  asked    |-> latestValue,
                  \* the same chart built by the earlier variant
                  early    |-> ChartEarly(data, opts) ]
  IN animate(built, clock)

\* An update that never removes the oldest sample.
updateNoShift(chart, probe, clock) ==
  LET pushed  == [chart EXCEPT !.data = Append(chart.data, probe.results),
                               !.asked = probe.latest]
      shown   == current([last |-> pushed.last, tween |-> pushed.tween], probe.latest)
      read    == [pushed EXCEPT !.last = shown.last, !.tween = shown.tween]
  IN animate(read, clock)

\* Chart.prototype.update: push, current, animate, then shift.
update(chart, probe, clock) ==
  LET pushed  == [chart EXCEPT !.data = Append(chart.data, probe.results),
                               !.asked = probe.latest]
      shown   == current([last |-> pushed.last, tween |-> pushed.tween], probe.latest)
      read    == [pushed EXCEPT !.last = shown.last, !.tween = shown.tween]
      drawn   == animate(read, clock)
  IN [drawn EXCEPT !.data = Tail(drawn.data),
                   !.early = updateEarly(chart.early, probe.results)]

\* ------------------------------------------------------- registry selection
\* The g.registry elements in document order: Charts.initialize appends one
\* per registry of the status data, with the classes 'registry' and its name.
GroupOrder == <<"npmjs", "nodejitsu">>

GroupNames == { c[2] : c \in ChartNames }

Classes(g) == {"registry", g}

Shown(grps) == { g \in DOMAIN grps : grps[g].show }

RECURSIVE Filter(_, _)
Filter(order, keep) ==
  IF order = << >> THEN << >>
  ELSE IF Head(order) \in keep THEN <<Head(order)>> \o Filter(Tail(order), keep)
  ELSE Filter(Tail(order), keep)

\* d3's selection.select(selector) on the one svg element of the container: a
\* selection is an array of groups, its one group holds the first element
\* that matches, or null.
d3select(matching) ==
  << IF matching = << >> THEN <<"null">> ELSE <<Head(matching)>> >>

\* The elements with every class of the selector, in document order.
Matching(grps, classes) ==
  Filter(GroupOrder,
         { g \in DOMAIN grps :
             classes \subseteq (Classes(g) \cup (IF grps[g].show THEN {"show"} ELSE {})) })

\* JavaScript's truthiness: an array is an object, whatever it holds; a node
\* is truthy and null is not.
ArrayIsTruthy(array) == Len(array) >= 0
NodeIsTruthy(node)   == node # "null"

\* A guard that tests the node of the selection, selection[0][0].
alreadyShownNode(grps, id) == NodeIsTruthy(d3select(Matching(grps, {"show", id}))[1][1])

\* A select() without the guard.
alreadyShownNever(grps, id) == FALSE

\* The guard of Charts.prototype.select: this.container.select('.show.' + id)[0].
alreadyShown(grps, id) == ArrayIsTruthy(d3select(Matching(grps, {"show", id}))[1])

\* Charts.prototype.select. x is the group's horizontal translation in widths;
\* trans is the transition scheduled on the element, the latest one wins.
select(grps, id) ==
  IF alreadyShown(grps, id) THEN grps
  ELSE LET leaving == [ g \in DOMAIN grps |->
                          IF grps[g].show THEN [grps[g] EXCEPT !.trans = "hide"]
                          ELSE grps[g] ]
           target  == d3select(Matching(leaving, {id}))[1][1]
       IN IF target = "null" THEN leaving
          ELSE [leaving EXCEPT ![target] = [show |-> TRUE, x |-> 0 - 1, trans |-> "show"]]

\* The end of a group's transition: a slide-out ends right of the view and
\* its 'end' listener removes the show class; a slide-in ends in the view.
groupEnd(grps, g) ==
  IF grps[g].trans = "hide"
  THEN [grps EXCEPT ![g] = [show |-> FALSE, x |-> 1, trans |-> "none"]]
  ELSE [grps EXCEPT ![g] = [@ EXCEPT !.x = 0, !.trans = "none"]]

\* The map markers: one path per location, its classes the names of the
\* registries at that location (Registries.prototype.id).
Locations == { {"npmjs"}, {"nodejitsu"} }

\* Registries.prototype.highlight.
highlight(className) == { l \in Locations : className \in l }

\* window.location.hash: empty, or '#' followed by a non-empty id.
NoHash == << >>
Hash(id) == <<"#", id>>

\* An initial selection that ignores the hash.
InitialIdDefault(h) == "npmjs"

\* !hash ? 'npmjs' : hash.slice(1)
InitialId(h) == IF h = NoHash THEN "npmjs" ELSE Tail(h)[1]

SelectIds == Registries \cup {"iriscouch"}

\* -------------------------------------------------------------------- bars
\* A property that a datum does not have.
Undefined == 0 - 5

\* Math.round(num / den) for den > 0.
RoundDiv(num, den) == (2 * num + den) \div (2 * den)

\* scale(x) of a linear scale, times the extent of its domain (Extent): d3
\* maps every x to range[0] when the domain has no extent.
Extent(sc) == IF sc.domain[2] = sc.domain[1] THEN 1 ELSE sc.domain[2] - sc.domain[1]

LinearTimes(sc, x) ==
  IF sc.domain[2] = sc.domain[1] THEN sc.range[1]
  ELSE sc.range[1] * Extent(sc) + (x - sc.domain[1]) * (sc.range[2] - sc.range[1])

\* The rect's y and height attributes of Chart.prototype.bar:
\*   height(point) = options.height - chart.y.scale(point)
\*   y      = Math.round(chart.y.scale(v) - height(lower))
\*   height = Math.round(height(v))
\* A scale maps undefined, and anything under a NaN domain, to NaN.
\* The rect is followed on a continuous y scale (linear or time).
bar(sc, height, v, lower) ==
  LET extent == Extent(sc)
      nan(x) == sc.domain[2] = NaN \/ x = Undefined
  IN [ y      |-> IF nan(v) \/ nan(lower) THEN NaN
                  ELSE RoundDiv(LinearTimes(sc, v)
                                  - (height * extent - LinearTimes(sc, lower)), extent),
       height |-> IF nan(v) THEN NaN
                  ELSE RoundDiv(height * extent - LinearTimes(sc, v), extent) ]

\* ------------------------------------------------------- heatmap and tooltip
TopLevel == 10
TipLimit == 10

\* Math.round(n / 10) for an integer n: halves round towards plus infinity.
RoundTenth(n) == (n + 5) \div 10

\* A level that truncates n / 10.
HeatLevelTruncated(n) ==
  LET value == n \div 10 IN IF value < TopLevel THEN value ELSE TopLevel

\* The level of the rect's class 'heatmap hecta-<level>'.
HeatLevel(n) ==
  LET value == RoundTenth(n) IN IF value < TopLevel THEN value ELSE TopLevel

Min(a, b) == IF a < b THEN a ELSE b

\* The html of the tooltip: the first entries joined, then the count of the
\* rest (more = 0 stands for the closing '.').
Content(modules) ==
  LET length == Len(modules) IN
  [ list |-> SubSeq(modules, 1, Min(length, TipLimit)),
    more |-> IF length > TipLimit THEN length - TipLimit ELSE 0 ]

NoContent == [list |-> << >>, more |-> 0]

\* A tooltip() that skips the visibility test and always opens.
tooltipAlwaysOpens(tp, content, hide) ==
  IF hide THEN [tp EXCEPT !.trans = "hide"]
  ELSE [visible |-> TRUE, content |-> content, trans |-> "show"]

\* Chart.prototype.tooltip: hide is or-ed with the element's offsetParent,
\* the fade-out is scheduled, and only a tooltip that was hidden is filled,
\* displayed and faded in (the later transition replaces the fade-out).
tooltip(tp, content, hide) ==
  IF hide \/ tp.visible THEN [tp EXCEPT !.trans = "hide"]
  ELSE [visible |-> TRUE, content |-> content, trans |-> "show"]

\* The end of the tooltip's transition: the fade-out leaves display: none.
tipEnd(tp) ==
  IF tp.trans = "hide" THEN [tp EXCEPT !.visible = FALSE, !.trans = "none"]
  ELSE [tp EXCEPT !.trans = "none"]

\* ------------------------------------------------------------------ inputs
VisualOptions == {"line", "bar", "heatmap", "text", "name", "pie", "undefined"}
TypeOptions   == {"linear", "time", "ordinal", "log", "undefined"}

RECURSIVE SeqsUpTo(_, _)
SeqsUpTo(S, k) ==
  IF k = 0 THEN { << >> }
  ELSE LET shorter == SeqsUpTo(S, k - 1)
       IN shorter \cup { Append(s, x) : s \in { q \in shorter : Len(q) = k - 1 }, x \in S }

\* History sample i of m carries a timestamp before the page load (t < 0).
Stamp(vs) == [ i \in 1 .. Len(vs) |-> Sample(i - Len(vs) - 1, vs[i]) ]

InitOptions(hists, opts, latests) ==
  /\ phase = "boot"
  /\ options \in opts
  /\ status \in hists
  /\ latest \in [DOMAIN status -> latests]
  /\ stack = << >>
  /\ now = 0
  /\ log = << >>
  /\ feed = 0
  /\ event = [kind |-> "none", name |-> <<"", "">>]
  /\ error = "none"

\* The status data with one history of at most k samples per registry of regs.
Histories(regs, k) ==
  [ { name(t, r) : t \in StatusTypes, r \in regs } ->
      { Stamp(vs) : vs \in SeqsUpTo(Values, k) } ]

NoName == <<"", "">>

Modules(length) == [ i \in 1 .. length |-> i ]

NoCell == [n |-> 0, modules |-> << >>, v |-> 0, lower |-> Undefined]

\* The page outside the charts: the location hash and the datum of the
\* heatmap cell the pointer is on.
InitPage(hashes, cells) ==
  /\ hash \in hashes
  /\ groups = << >>
  /\ marked = {}
  /\ calls = << >>
  /\ clicks = 0
  /\ cell \in cells
  /\ unit = << >>
  /\ tip = [visible |-> FALSE, content |-> NoContent, trans |-> "none"]
  /\ torn = FALSE

\* The options of a chart whose axes have no configured domain.
Undomained(ns, visuals, xtypes, ytypes) ==
  [ n : ns, visual : visuals, xtype : xtypes, ytype : ytypes,
    width : {300}, height : {60}, xdomain : { << >> }, ydomain : { << >> } ]

InitWith(hists, ns, visuals, xtypes, ytypes, latests) ==
  InitOptions(hists, Undomained(ns, visuals, xtypes, ytypes), latests)

\* ----------------------------------------------------------------- actions
\* change(id) of the init handler, on the groups grps: the marker highlight,
\* then the chart-group selection.
change(id, grps) ==
  /\ marked' = highlight(id)
  /\ groups' = select(grps, id)
  /\ calls' = << <<"highlight", id>>, <<"select", id>> >>

\* The status::initialise handler: Charts.initialize adds one Chart per
\* status entry, then the feed is subscribed.
init ==
  /\ phase = "boot"
  /\ IF \E c \in ChartNames : ~Backfill(Capacity(options), status[c]).ends
     THEN \* a constructor that never returns: the handler hangs
          /\ phase' = "hung"
          /\ error' = "none"
          /\ UNCHANGED <<stack, log, groups, marked, calls, unit>>
     ELSE IF VisualThrows(options.visual)
     THEN /\ phase' = "failed"
          /\ error' = "TypeError"
          /\ UNCHANGED <<stack, log, groups, marked, calls, unit>>
     ELSE /\ phase' = "ready"
          /\ error' = "none"
          /\ stack' = [c \in ChartNames |-> Chart(status[c], latest[c], options, now)]
          /\ log' = [c \in ChartNames |-> stack'[c].data]
          /\ unit' = IF \E c \in ChartNames :
                             stack'[c].renderer = "heatmap" /\ stack'[c].data # << >>
                     THEN <<HeatLevel(cell.n)>>
                     ELSE IF \E c \in ChartNames :
                             /\ stack'[c].renderer = "bar" /\ stack'[c].data # << >>
                             /\ stack'[c].y.kind # "ordinal"
                     THEN LET c == CHOOSE d \in ChartNames : stack'[d].renderer = "bar"
                          IN <<bar(stack'[c].y, options.height, cell.v, cell.lower)>>
                     ELSE << >>
          /\ change(InitialId(hash),
                    [g \in GroupNames |-> [show |-> FALSE, x |-> 0, trans |-> "none"]])
  /\ event' = [kind |-> "init", name |-> NoName]
  \* pagelet.data.status as the constructors leave it
  /\ status' = [c \in ChartNames |-> Backfill(Capacity(options), status[c]).from]
  /\ UNCHANGED <<options, latest, now, feed, hash, clicks, cell, tip, torn>>

\* A dispatch that hands the sample to every chart of the collection.
dispatchAll(charts, key, probe, clock) ==
  [c \in DOMAIN charts |-> update(charts[c], probe, clock)]

\* this.stack[name].update(probe) for a name that is in the stack.
dispatch(charts, key, probe, clock) ==
  [charts EXCEPT ![key] = update(charts[key], probe, clock)]

\* Charts.prototype.append, the listener of pagelet.pipe.stream 'data'.
\* Events arrive at distinct times: the clock has advanced by one at each.
append(probe) ==
  LET key == name(probe.name, probe.registry) IN
  /\ phase = "ready"
  /\ feed < MaxFeed
  /\ feed' = feed + 1
  /\ event' = [kind |-> "data", name |-> key]
  /\ IF key \in DOMAIN stack
     THEN /\ stack' = dispatch(stack, key, probe, now)
          /\ log' = [log EXCEPT ![key] = Append(log[key], probe.results)]
          /\ error' = "none"
     ELSE \* this.stack[name] is undefined: calling .update on it throws
          /\ error' = "TypeError"
          /\ UNCHANGED <<stack, log>>
  /\ now' = now + 1
  /\ UNCHANGED <<phase, options, status, latest, selVars, heatVars, torn>>

Probes ==
  [ name : Types, registry : Registries,
    results : { Sample(now, v) : v \in Values }, latest : LatestInputs ]

Feed == \E probe \in Probes : append(probe)

\* A click on an entry of the registry list: change runs with the id of the
\* element.
click(id) ==
  /\ phase = "ready"
  /\ clicks < MaxClicks
  /\ clicks' = clicks + 1
  /\ change(id, groups)
  /\ event' = [kind |-> "click", name |-> NoName]
  /\ error' = "none"
  /\ UNCHANGED <<phase, options, status, latest, stack, now, log, feed, hash,
                 heatVars, torn>>

Click == \E id \in SelectIds : click(id)

\* A click on the heatmap cell.
cellClick ==
  /\ phase = "ready"
  /\ unit # << >>
  /\ tip' = IF Len(cell.modules) = 0 THEN tip
            ELSE tooltip(tip, Content(cell.modules), FALSE)
  /\ event' = [kind |-> "cell", name |-> NoName]
  /\ error' = "none"
  /\ UNCHANGED <<phase, options, status, latest, stack, now, log, feed, selVars,
                 cell, unit, torn>>

\* A click on the tooltip, which is displayed: tooltip('', true).
tipClick ==
  /\ phase = "ready"
  /\ tip.visible
  /\ tip' = tooltip(tip, NoContent, TRUE)
  /\ event' = [kind |-> "tip", name |-> NoName]
  /\ error' = "none"
  /\ UNCHANGED <<phase, options, status, latest, stack, now, log, feed, selVars,
                 cell, unit, torn>>

\* The transitions d3's timer has to run: the readout tween of a chart, the
\* slide of a group, the fade of the tooltip.
Transitions ==
  { [kind |-> "tween", chart |-> c, group |-> ""] :
      c \in { d \in DOMAIN stack : stack[d].tween # << >> } }
  \cup { [kind |-> "slide", chart |-> NoName, group |-> g] :
           g \in { h \in DOMAIN groups : groups[h].trans # "none" } }
  \cup { [kind |-> "fade", chart |-> NoName, group |-> ""] :
           t \in { u \in {tip} : u.trans # "none" } }

\* The frame at t = 1, which ends the transition.
LastFrame == 0 - 3

\* Math.round(i(t)) for the eased t of a frame before the last: an integer
\* from the start value to the target.
Frames(t) ==
  IF t.running /\ t.from # NaN
  THEN (t.from .. t.to) \cup (t.to .. t.from)
  ELSE {}

\* The readout transition of current(): at its start the tween factory reads
\* the text shown and builds d3.interpolate(textContent, target), a number
\* interpolator that yields NaN from a text that is no number; each frame
\* writes Math.round of the interpolated value, the last one that of the
\* interpolator's end value.
tween(chart, frame) ==
  LET t == chart.tween[1] IN
  IF ~t.running
  THEN [chart EXCEPT !.tween = <<[t EXCEPT !.running = TRUE,
                                   !.from = IF TextIsNaN(chart.last) THEN NaN ELSE chart.last]>>]
  ELSE IF frame # LastFrame THEN [chart EXCEPT !.last = frame]
  ELSE [chart EXCEPT !.last = IF t.from = NaN THEN NaN ELSE t.to, !.tween = << >>]

\* The frames the timer can run next for the transition tr.
NextFrames(tr) ==
  IF tr.kind = "tween" THEN Frames(stack[tr.chart].tween[1]) \cup {LastFrame}
  ELSE {LastFrame}

\* One callback of d3's timer for the transition tr.
timer(tr) ==
  /\ phase = "ready"
  /\ \E frame \in NextFrames(tr) :
        stack' = IF tr.kind = "tween"
                 THEN [stack EXCEPT ![tr.chart] = tween(stack[tr.chart], frame)]
                 ELSE stack
  /\ groups' = IF tr.kind = "slide" THEN groupEnd(groups, tr.group) ELSE groups
  /\ tip' = IF tr.kind = "fade" THEN tipEnd(tip) ELSE tip
  /\ event' = [kind |-> tr.kind, name |-> tr.chart]
  /\ error' = "none"
  /\ UNCHANGED <<phase, options, status, latest, now, log, feed, hash, marked,
                 calls, clicks, cell, unit, torn>>

Timer == \E tr \in Transitions : timer(tr)

\* The host page discards the pagelet's elements. No handler of the client
\* runs: nothing is cancelled or unsubscribed.
teardown ==
  /\ phase = "ready"
  /\ ~torn
  /\ torn' = TRUE
  /\ UNCHANGED <<chartVars, selVars, heatVars>>

\* A step interval passes without a feed event. The constructor has called
\* animate once and has registered no timer, so no handler runs.
tick ==
  /\ phase = "ready"
  /\ now < MaxIdle * DefaultStep
  /\ now' = now + DefaultStep
  /\ event' = [kind |-> "tick", name |-> NoName]
  /\ error' = "none"
  /\ UNCHANGED <<phase, options, status, latest, stack, log, feed, selVars,
                 heatVars, torn>>

Next == init \/ Feed \/ Timer

NextIdle == init \/ tick \/ Timer

NextSelect == init \/ Click \/ Timer

NextHeatmap == init \/ cellClick \/ tipClick \/ Timer

NextTeardown == init \/ Feed \/ Timer \/ teardown

\* One chart, line or bar, over every history and capacity.
Init ==
  /\ InitWith(Histories({"npmjs"}, MaxHist), 0 .. MaxN, {"line", "bar"},
              {"time"}, {"linear"}, {NotANumber, 1})
  /\ InitPage({NoHash}, {NoCell})

Spec == Init /\ [][Next]_vars

\* Two charts of one type with short histories.
InitCharts ==
  /\ InitWith(Histories(Registries, 1), {1, 2}, {"line"}, {"time"}, {"linear"}, {1})
  /\ InitPage({NoHash}, {NoCell})

SpecCharts == InitCharts /\ [][Next]_vars

\* One chart under every configured visual and scale type.
InitConfig ==
  /\ InitWith(Histories({"npmjs"}, 1), {2}, VisualOptions, TypeOptions, TypeOptions, {1})
  /\ InitPage({NoHash}, {NoCell})

SpecConfig == InitConfig /\ [][Next]_vars

\* ------------------------------------------------------------------ claims
\* The last k elements of s, all of s when it is shorter.
LastN(s, k) == IF Len(s) <= k THEN s ELSE SubSeq(s, Len(s) - k + 1, Len(s))

Last(s) == s[Len(s)]

KnownTypes == {"linear", "time", "ordinal"}

\* C1: a chart whose initial window holds exactly n samples holds, after any
\* number of updates, exactly n samples: the last n of the initial window
\* followed by the pushed samples, oldest first.
C1_FullWindowSlides ==
  phase = "ready" =>
    \A c \in DOMAIN stack :
      Len(Backfill(stack[c].n, status[c]).data) = stack[c].n =>
        /\ Len(stack[c].data) = stack[c].n
        /\ stack[c].data = LastN(log[c], stack[c].n)

\* C1 witness: a window of capacity 3 that was full at construction has
\* taken two updates.
C1_Witness ==
  /\ phase = "ready"
  /\ event.kind = "data"
  /\ \E c \in DOMAIN stack :
       /\ stack[c].n = 3
       /\ Len(status[c]) = 3
       /\ Len(log[c]) = 5
       /\ stack[c].data = SubSeq(log[c], 3, 5)

\* C2 (as claimed): a history of more than n samples yields a window of
\* exactly the trailing n history entries.
C2_BackfillKeepsTrailingN ==
  event.kind = "init" =>
    /\ phase = "ready"
    /\ \A c \in DOMAIN stack :
         Len(status[c]) > stack[c].n =>
           stack[c].data = LastN(status[c], stack[c].n)

\* C3: a history of m < n samples (m = 0 included) is constructed without
\* a throw into a window of exactly those m samples, in order.
C3_ShortHistoryKept ==
  event.kind = "init" =>
    \A c \in DOMAIN status :
      Len(status[c]) < Capacity(options) =>
        /\ phase = "ready"
        /\ error = "none"
        /\ stack[c].data = status[c]

\* C3 witness: two history samples under capacity 3 were constructed.
C3_Witness ==
  /\ event.kind = "init"
  /\ phase = "ready"
  /\ \E c \in DOMAIN stack :
       /\ options.n = 3
       /\ Len(status[c]) = 2
       /\ Len(stack[c].data) = 2

\* C4 (as claimed): an update on a window of fewer than n samples grows it
\* by one, evicts nothing and leaves the pushed sample as the newest one.
C4_UpdateGrowsBelowCapacity ==
  [][ (event'.kind = "data" /\ event'.name \in DOMAIN stack) =>
        LET k == event'.name IN
        Len(stack[k].data) < stack[k].n =>
          /\ Len(stack'[k].data) = Len(stack[k].data) + 1
          /\ stack'[k].data = Append(stack[k].data, Last(log'[k])) ]_vars

\* C5 (as claimed): after an update the y-domain is [0, u] with u the
\* maximum over the samples in the window after the update.
C5_DomainIsWindowMax ==
  (event.kind = "data" /\ event.name \in DOMAIN stack) =>
    stack[event.name].y.domain = <<0, d3max(stack[event.name].data)>>

\* C6: after construction and after every update the window holds at most
\* n samples.
C6_WindowWithinCapacity ==
  phase = "ready" =>
    \A c \in DOMAIN stack : Len(stack[c].data) <= stack[c].n

\* C6 witness: a chart built from a history longer than its capacity has
\* been updated.
C6_Witness ==
  /\ phase = "ready"
  /\ event.kind = "data"
  /\ \E c \in DOMAIN stack :
       /\ Len(status[c]) > stack[c].n
       /\ Len(log[c]) > Len(stack[c].data)
       /\ event.name = c

\* C7: a feed event for a chart of the collection runs that chart's update
\* once and leaves every other chart as it was.
C7_FeedRoutedToOwner ==
  [][ (event'.kind = "data" /\ event'.name \in DOMAIN stack) =>
        LET k == event'.name IN
        /\ Len(log'[k]) = Len(log[k]) + 1
        /\ stack'[k].data = Tail(Append(stack[k].data, Last(log'[k])))
        /\ \A o \in DOMAIN stack \ {k} : stack'[o] = stack[o] /\ log'[o] = log[o] ]_vars

\* C7 witness: an event for nodejitsu was handled while the npmjs chart of
\* the same type holds a sample.
C7_Witness ==
  /\ phase = "ready"
  /\ event.kind = "data"
  /\ event.name = name("ping", "nodejitsu")
  /\ name("ping", "npmjs") \in DOMAIN stack
  /\ stack[name("ping", "npmjs")].data # << >>
  /\ Len(log[name("ping", "nodejitsu")]) > Len(stack[name("ping", "nodejitsu")].data)

\* C8 (as claimed): a feed event whose key matches no chart is dropped
\* without a throw.
C8_UnknownKeyDropped ==
  (event.kind = "data" /\ event.name \notin DOMAIN stack) => error = "none"

C10_UnknownVisualRejected ==
  phase # "boot" =>
    /\ options.visual \notin Renderers => phase = "failed"
    /\ phase = "ready" => \A c \in DOMAIN stack : stack[c].renderer \in Renderers

\* --------------------------------------------------------------- selection
\* Two registries with short histories, every hash, clicks on the list.
InitSelect ==
  /\ InitWith(Histories(Registries, 1), {2}, {"line"}, {"time"}, {"linear"}, {1})
  /\ InitPage({NoHash} \cup { Hash(id) : id \in SelectIds }, {NoCell})

SpecSelect == InitSelect /\ [][NextSelect]_vars

\* The id change() selected last.
Selected == calls[2][2]

Settled == \A g \in DOMAIN groups : groups[g].trans = "none"

\* C11: once every transition of the groups has completed, the groups that
\* carry show are exactly the group named by the id selected last, and none
\* when that id names no group.
C11_LastSelectedShown ==
  (phase = "ready" /\ Settled) =>
     Shown(groups) = { g \in DOMAIN groups : g = Selected }

C14_InitSelectsOnce ==
  (event.kind = "init" /\ phase = "ready") =>
     LET id == IF hash = NoHash THEN "npmjs" ELSE hash[2] IN
     /\ calls = << <<"highlight", id>>, <<"select", id>> >>
     /\ marked = { l \in Locations : id \in l }

\* The init handler has run on a page whose hash names the second registry.
C14_Witness ==
  /\ event.kind = "init"
  /\ phase = "ready"
  /\ hash = Hash("nodejitsu")
  /\ marked = { {"nodejitsu"} }

\* ------------------------------------------------------ heatmap and tooltip
Cells == [ n : (0 - MaxCount) .. MaxCount,
           modules : { Modules(length) : length \in 0 .. MaxModules },
           v : {0}, lower : {Undefined} ]

\* One heatmap chart and the cell under the pointer, over every count and
\* every length of the module list.
InitHeatmap ==
  /\ InitWith(Histories({"npmjs"}, 1), {2}, {"heatmap"}, {"time"}, {"ordinal"}, {1})
  /\ InitPage({NoHash}, Cells)

SpecHeatmap == InitHeatmap /\ [][NextHeatmap]_vars

\* C15 as stated: the level of a cell is round(n / 10) clamped to 0..10, so
\* n = 0 gives 0, n = 55 gives 5, n >= 100 gives 10, and no n gives a level
\* outside 0..10.
C15_LevelClamped ==
  unit # << >> =>
     /\ unit[1] \in 0 .. 10
     /\ cell.n = 0 => unit[1] = 0
     /\ cell.n = 55 => unit[1] = 5
     /\ cell.n >= 100 => unit[1] = 10

\* C15 amended: the level is n / 10 rounded to the nearest integer, halves
\* upwards, and capped at 10 from above only: n = 0 gives 0, n = 55 gives 6,
\* n >= 95 gives 10, and the level lies in 0..10 exactly when n >= -5.
C15_LevelRoundedAndCapped ==
  unit # << >> =>
     /\ cell.n >= 95 => unit[1] = 10
     /\ cell.n < 95 => (10 * unit[1] - 5 <= cell.n /\ cell.n < 10 * unit[1] + 5)
     /\ cell.n = 0 => unit[1] = 0
     /\ cell.n = 55 => unit[1] = 6
     /\ unit[1] \in 0 .. 10 <=> cell.n >= 0 - 5

\* A cell with n = 55 has been rendered.
C15_Witness == unit = <<6>> /\ cell.n = 55

\* C16 as stated: a click on a cell with a list of L >= 1 entries leaves the
\* tooltip open, whatever its state before, with the first min(L, 10)
\* entries and the overflow count L - 10 when L > 10; a click on a cell with
\* an empty list changes nothing.
C16_ClickOpensTooltip ==
  [][ event'.kind = "cell" =>
        LET length == Len(cell.modules) IN
        IF length = 0 THEN tip' = tip
        ELSE /\ tip'.visible
             /\ tip'.trans # "hide"
             /\ tip'.content.list = [ i \in 1 .. (IF length < 10 THEN length ELSE 10) |-> cell.modules[i] ]
             /\ tip'.content.more = (IF length > 10 THEN length - 10 ELSE 0) ]_vars

\* C16 amended: a click on a cell with a list of L >= 1 entries opens the
\* tooltip when it is hidden, with the first min(L, 10) entries and the
\* overflow count L - 10 when L > 10, and closes the tooltip when it is
\* displayed, its content left as it is; a click on a cell with an empty
\* list changes nothing.
C16_ClickTogglesTooltip ==
  [][ event'.kind = "cell" =>
        LET length == Len(cell.modules) IN
        IF length = 0 THEN tip' = tip
        ELSE IF tip.visible
        THEN tip' = [visible |-> TRUE, content |-> tip.content, trans |-> "hide"]
        ELSE /\ tip'.visible
             /\ tip'.trans = "show"
             /\ tip'.content.list = [ i \in 1 .. (IF length < 10 THEN length ELSE 10) |-> cell.modules[i] ]
             /\ tip'.content.more = (IF length > 10 THEN length - 10 ELSE 0) ]_vars

\* A click has opened the tooltip on a list of eleven entries.
C16_Witness ==
  /\ event.kind = "cell"
  /\ Len(cell.modules) = 11
  /\ tip.visible
  /\ tip.trans = "show"
  /\ Len(tip.content.list) = 10
  /\ tip.content.more = 1

\* ------------------------------------------------------------- the readout
\* C17: the readout never shows NaN; current() starts a tween only when the
\* value is a number and the text shown is numeric, and sets the text at once
\* otherwise.
C17_ReadoutNeverNaN ==
  \A c \in DOMAIN stack : stack[c].last # NaN

\* C18: a Chart constructed from an empty history has the y-domain [0, 0].
C18_EmptyHistoryDomainZero ==
  (event.kind = "init" /\ phase = "ready") =>
     \A c \in DOMAIN stack : status[c] = << >> => stack[c].y.domain = <<0, 0>>

\* ----------------------------------------------------------- ordinal scale
Keys == {"a", "b", "c"}

\* One chart with an ordinal y axis over every configured list of keys and
\* three heights.
InitOrdinal ==
  /\ InitOptions(Histories({"npmjs"}, 0),
                 [ n : {2}, visual : {"heatmap"}, xtype : {"time"}, ytype : {"ordinal"},
                   width : {300}, height : {6, 7, 8}, xdomain : { << >> },
                   ydomain : { <<d>> : d \in SeqsUpTo(Keys, MaxKeys) } ],
                 {1})
  /\ InitPage({NoHash}, {NoCell})

SpecOrdinal == InitOrdinal /\ [][Next]_vars

Distinct(keys) == \A i, j \in 1 .. Len(keys) : keys[i] = keys[j] => i = j

Orders(keys) ==
  { p \in [1 .. Len(keys) -> Keys] :
      Distinct(p) /\ { p[i] : i \in 1 .. Len(p) } = { keys[i] : i \in 1 .. Len(keys) } }

\* C19: an ordinal scale over the range [a, b] and m distinct keys has m
\* bands of one width inside the range, the i-th key on the i-th band from a;
\* 'b' of ['a', 'b', 'c'] maps into the middle third of the range; the same
\* keys in another order get another assignment.
C19_OrdinalBandsInOrder ==
  \A c \in DOMAIN stack :
     LET sc   == stack[c].y
         keys == options.ydomain[1]
         m    == Len(keys)
         a    == sc.range[1]
         b    == sc.range[2]
         w    == (a - b) \div m
     IN (sc.kind = "ordinal" /\ m >= 1 /\ Distinct(keys)) =>
          /\ \A i \in 1 .. m :
               LET lower == OrdinalMap(sc, keys[i]) IN
               /\ b <= lower /\ lower + w <= a
               /\ i < m => lower - w = OrdinalMap(sc, keys[i + 1])
          /\ keys = <<"a", "b", "c">> =>
               /\ 3 * (a - OrdinalMap(sc, "b")) > (a - b)
               /\ 3 * (a - OrdinalMap(sc, "b")) <= 2 * (a - b)
          /\ \A p \in Orders(keys) :
               p # keys => \E k \in Keys :
                  OrdinalMap(construct("ordinal", sc.range, p), k) # OrdinalMap(sc, k)

\* A chart with the keys a, b, c on a range that three does not divide.
C19_Witness ==
  /\ phase = "ready"
  /\ options.ydomain = << <<"a", "b", "c">> >>
  /\ options.height = 8
  /\ \E c \in DOMAIN stack : stack[c].y.points = <<5, 3, 1>>

\* ---------------------------------------------------------------- teardown
InitTeardown ==
  /\ InitWith(Histories({"npmjs"}, 1), {1, 2}, {"line"}, {"time"}, {"linear"}, {1})
  /\ InitPage({NoHash}, {NoCell})

SpecTeardown == InitTeardown /\ [][NextTeardown]_vars

\* C20: once the charts are torn down, no timer, transition or tween
\* callback changes a chart again.
C20_NoCallbackAfterTeardown ==
  [][ torn => stack' = stack ]_vars

\* ---------------------------------------------------------------- redraws
\* One chart of each visual that renders, with histories around the capacity.
InitVisuals ==
  /\ InitWith(Histories({"npmjs"}, 2), {1, 2}, Renderers, {"time"}, {"linear"}, {1})
  /\ InitPage({NoHash}, {NoCell})

SpecVisuals == InitVisuals /\ [][Next]_vars

\* C21: the redraw that update() schedules for a chart that animates reads
\* the window as it is after the eviction, which holds at most n samples.
C21_RedrawReadsEvictedWindow ==
  [][ ( /\ event'.kind = "data"
        /\ event'.name \in DOMAIN stack
        /\ HasAnimate(stack[event'.name].renderer) )
      => /\ stack'[event'.name].drawn = stack'[event'.name].data
         /\ Len(stack'[event'.name].drawn) <= stack'[event'.name].n ]_vars

\* C22: after update(sample) a line, bar or heatmap chart has the x-domain
\* end at the time of the update, the y-domain recomputed from the window,
\* and one rendered element per sample of the window.
C22_RenderedFromWindow ==
  [][ ( /\ event'.kind = "data"
        /\ event'.name \in DOMAIN stack
        /\ stack[event'.name].renderer \in Renderers )
      => /\ stack'[event'.name].x.domain[2] = now
         /\ stack'[event'.name].y.domain = <<0, d3max(stack'[event'.name].data)>>
         /\ stack'[event'.name].drawn = stack'[event'.name].data ]_vars

\* ------------------------------------------------------------ idle charts
\* One line chart and no feed: only time passes.
InitIdle ==
  /\ InitWith(Histories({"npmjs"}, MaxHist), 1 .. MaxN, {"line"}, {"time"},
              {"linear"}, {NotANumber, 1})
  /\ InitPage({NoHash}, {NoCell})

SpecIdle == InitIdle /\ [][NextIdle]_vars

\* C23: when a step interval has passed without a sample, a chart that
\* animates has run animate again: its x-domain ends at the current time.
C23_AnimateEveryStep ==
  [][ event'.kind = "tick" =>
        \A c \in DOMAIN stack :
           HasAnimate(stack[c].renderer) => stack'[c].x.domain[2] = now' ]_vars

\* ------------------------------------------------------- readout at rest
\* C24: a frame of a running readout tween shows an integer from the number
\* the tween started at to the rounded target, and a readout with no
\* transition left shows the rounded value of the update handled last (the
\* value itself when it is no number).
C24_ReadoutReachesLatest ==
  \A c \in DOMAIN stack :
     /\ (stack[c].tween # << >> /\ stack[c].tween[1].running)
           => stack[c].tween[1].from # NaN
     /\ stack[c].tween = << >>
           => stack[c].last = (IF stack[c].asked = NotANumber THEN NotANumber
                               ELSE MathRound(stack[c].asked))

\* -------------------------------------------------------------------- bars
\* One bar chart and a datum with every value and every baseline.
InitBar ==
  /\ InitWith(Histories({"npmjs"}, 2), {2, 3}, {"bar"}, {"time"}, {"linear"}, {1})
  /\ InitPage({NoHash},
              [ n : {0}, modules : { << >> }, v : Values, lower : {Undefined} \cup Values ])

SpecBar == InitBar /\ [][Next]_vars

\* The pixel of x on the y scale of the bar chart, whose domain is [0, u].
PixelOf(x, u) ==
  IF u = 0 THEN options.height ELSE options.height - (options.height * x) \div u

\* C25: the rect of a bar datum has its top edge at the pixel of the value
\* and its bottom edge at the pixel of lower, or of 0 when lower is absent;
\* y and height are numbers.
C25_BarSpansLowerToValue ==
  \A c \in DOMAIN stack :
     (stack[c].renderer = "bar" /\ unit # << >>) =>
        LET u     == stack[c].y.domain[2]
            base  == IF cell.lower = Undefined THEN 0 ELSE cell.lower
        IN /\ unit[1].y # NaN
           /\ unit[1].height # NaN
           /\ unit[1].y = PixelOf(cell.v, u)
           /\ unit[1].y + unit[1].height = PixelOf(base, u)

\* ------------------------------------------------------- the earlier variant
\* C26: a line chart of the earlier variant (src/client.js), given the same
\* n, history and updates, holds the same window as the chart of part_000
\* after construction and after every update.
C26_VariantsSameWindow ==
  \A c \in DOMAIN stack :
     (stack[c].renderer = "line" /\ stack[c].early.n = stack[c].n) =>
        /\ stack[c].early.state = "ok"
        /\ stack[c].early.data = stack[c].data

\* C27: after construction and after every update of a line chart the
\* y-domain is [0, u] with u at least values[key] of every sample in the window.
C27_DomainCoversWindow ==
  \A c \in DOMAIN stack :
     stack[c].renderer = "line" =>
        /\ stack[c].y.domain[1] = 0
        /\ \A i \in DOMAIN stack[c].data :
              /\ stack[c].y.domain[2] # NaN
              /\ stack[c].y.domain[2] >= stack[c].data[i].v

\* A line chart after an update, whose window holds a sample greater than its oldest.
C27_Witness ==
  \E c \in DOMAIN stack :
     /\ stack[c].renderer = "line"
     /\ event.kind = "data" /\ event.name = c
     /\ Len(stack[c].data) >= 2
     /\ stack[c].data[1].v < stack[c].data[Len(stack[c].data)].v
     /\ stack[c].y.domain[2] = stack[c].data[Len(stack[c].data)].v

\* C28: after a change(id), once every transition has completed, the marker
\* highlight and the chart-group selection agree on id: a marker is
\* highlighted exactly when its registry ids include id, and the group that
\* is shown is the group of id, or none when id names no group.
C28_HighlightAndSelectionAgree ==
  (phase = "ready" /\ Transitions = {}) =>
     /\ marked = { l \in Locations : Selected \in l }
     /\ \A g \in DOMAIN groups : groups[g].show <=> (g = Selected)

\* ------------------------------------------------------------ frame effects
\* C29: constructing a Chart and updating it leave the caller's history
\* arrays and the samples as they are; the window is a run of the history's
\* last entries after construction, and an update changes it only by
\* appending the sample at the end and removing the entry at the front.
C29_CallerDataUntouched ==
  [][ /\ status' = status
      /\ (event'.kind = "init" /\ phase' = "ready") =>
            \A c \in DOMAIN stack' :
               LET m == Len(status[c])
                   k == Len(stack'[c].data)
               IN k <= m /\ stack'[c].data = SubSeq(status[c], m - k + 1, m)
      /\ (event'.kind = "data" /\ event'.name \in DOMAIN stack) =>
            LET c == event'.name
            IN stack'[c].data = Tail(Append(stack[c].data, log'[c][Len(log'[c])])) ]_vars

\* An update has run on a chart that was built from a history of several samples.
C29_Witness ==
  \E c \in DOMAIN stack :
     /\ event.kind = "data" /\ event.name = c
     /\ Len(status[c]) >= 2
     /\ Len(stack[c].data) >= 2
     /\ stack[c].data[Len(stack[c].data)] \notin { status[c][i] : i \in DOMAIN status[c] }

\* C30: for every capacity n >= 1 and every history, the backfill loop of
\* the constructor ends, in the earlier variant as in the feature-complete
\* one, and the window it fills holds entries of the history only.
C30_BackfillTerminates ==
  (event.kind = "init" /\ options.n >= 1) =>
     /\ phase # "hung"
     /\ \A c \in DOMAIN stack :
           /\ stack[c].early.state # "hung"
           /\ \A i \in DOMAIN stack[c].data :
                 \E k \in DOMAIN status[c] : status[c][k] = stack[c].data[i]

====
